---- MODULE Spec2Model ----
(***************************************************************************)
(* ZoneMap tile generator (src/src/main.rs): a model of the resolver of    *)
(* root ADT file names, the tile key, the area-id extractor, the base64    *)
(* tile encoder, the per-continent export table and the directory scan     *)
(* driver, with the properties checked against them.                       *)
(*                                                                         *)
(* Text is a sequence of one-character strings; Option and Result values   *)
(* are records tagged by "tag".                                            *)
(***************************************************************************)
EXTENDS Integers, Sequences, FiniteSets, TLC

VARIABLES
    phase,      \* which component's step comes next in the component specifications
    name,       \* resolver: the file name handed to parse_root_adt_filename
    resolved,   \* resolver: its result
    tx, ty,     \* tile key: the coordinates handed to tile_key
    key,        \* tile key: its result
    chunks,     \* extractor / encoder: the u32 sequence handed in
    extracted,  \* extractor: the result of the normalisation
    encoded,    \* encoder: the result of encode_tile_b64
    env,        \* driver: the file system as the run finds it (never written)
    pc,         \* driver: position in main / generate_continent / build_tile_export
    cur,        \* driver: index of the continent being generated
    dataDir,    \* driver: state of the output directory Data
    artifacts,  \* driver: content of each continent's <name>_tiles.lua
    remaining,  \* driver: directory entries read_dir has not yielded yet
    tiles,      \* driver: export.tiles of the running build_tile_export
    parsed,     \* driver: the counter parsed
    trail,      \* driver, history: the entries yielded so far with what the loop did
    stdout,     \* driver: lines printed with println!
    stderr      \* driver: lines printed with eprintln!

compVars == <<phase, name, resolved, tx, ty, key, chunks, extracted, encoded>>
drvVars == <<env, pc, cur, dataDir, artifacts, remaining, tiles, parsed, trail, stdout, stderr>>
vars == <<compVars, drvVars>>

None == [tag |-> "None"]
Some(v) == [tag |-> "Some", val |-> v]
Ok(v) == [tag |-> "Ok", val |-> v]
Err(e) == [tag |-> "Err", err |-> e]

(***************************************************************************)
(* u32.  TLC's integers stop at 2^31 - 1, so a u32 is kept as two 16-bit   *)
(* limbs <<hi, lo>>, standing for hi * 2^16 + lo.                          *)
(***************************************************************************)
Limb == 256 * 256
U32Of(n) == <<n \div Limb, n % Limb>>
Hi(v) == v[1]
Lo(v) == v[2]

(***************************************************************************)
(* Text helpers: the std operations parse_root_adt_filename calls.         *)
(***************************************************************************)
UpperChars == <<"A","B","C","D","E","F","G","H","I","J","K","L","M",
                "N","O","P","Q","R","S","T","U","V","W","X","Y","Z">>
LowerChars == <<"a","b","c","d","e","f","g","h","i","j","k","l","m",
                "n","o","p","q","r","s","t","u","v","w","x","y","z">>
DigitChars == <<"0","1","2","3","4","5","6","7","8","9">>

\* char::to_ascii_lowercase
LowerChar(c) ==
    IF \E i \in 1..26 : UpperChars[i] = c
    THEN LowerChars[CHOOSE i \in 1..26 : UpperChars[i] = c]
    ELSE c

\* str::to_ascii_lowercase
to_ascii_lowercase(s) == [i \in 1..Len(s) |-> LowerChar(s[i])]

IsDigit(c) == \E i \in 1..10 : DigitChars[i] = c
DigitVal(c) == (CHOOSE i \in 1..10 : DigitChars[i] = c) - 1

\* Position of the last occurrence of character c in s, 0 when there is none.
LastIndexOf(s, c) ==
    IF \E i \in 1..Len(s) : s[i] = c
    THEN CHOOSE i \in 1..Len(s) : s[i] = c /\ \A j \in (i+1)..Len(s) : s[j] # c
    ELSE 0

\* Path::extension of a path whose final component is fname: the text after
\* the last dot; None without a dot, or when the only dot leads the name.
PathExtension(fname) ==
    LET d == LastIndexOf(fname, ".") IN
    IF Len(fname) = 0 \/ d <= 1 THEN None
    ELSE Some(SubSeq(fname, d + 1, Len(fname)))

\* Path::file_stem: the text before the last dot; the whole name without a
\* dot, or when the only dot leads the name.
PathFileStem(fname) ==
    LET d == LastIndexOf(fname, ".") IN
    IF Len(fname) = 0 THEN None
    ELSE IF d <= 1 THEN Some(fname)
    ELSE Some(SubSeq(fname, 1, d - 1))

\* str::split(sep).collect(): the segments between separators, empty ones kept.
RECURSIVE Split(_, _)
Split(s, sep) ==
    IF \E i \in 1..Len(s) : s[i] = sep
    THEN LET i == CHOOSE k \in 1..Len(s) : s[k] = sep /\ \A j \in 1..(k-1) : s[j] # sep
         IN <<SubSeq(s, 1, i - 1)>> \o Split(SubSeq(s, i + 1, Len(s)), sep)
    ELSE <<s>>

\* The digit loop of from_str_radix: result = result.checked_mul(10)?
\* .checked_add(digit)?, left to right; Err once the value leaves u32.
RECURSIVE DecimalValue(_)
DecimalValue(ds) ==
    IF Len(ds) = 0 THEN Ok(U32Of(0))
    ELSE LET front == DecimalValue(SubSeq(ds, 1, Len(ds) - 1)) IN
         IF front.tag = "Err" THEN front
         ELSE LET lo == Lo(front.val) * 10 + DigitVal(ds[Len(ds)])
                  hi == Hi(front.val) * 10 + (lo \div Limb)
              IN  IF hi >= Limb THEN Err("PosOverflow") ELSE Ok(<<hi, lo % Limb>>)

\* <u32 as FromStr>::from_str: an optional leading "+", then one or more
\* decimal digits, the value below 2^32; anything else is an error.
ParseU32(s) ==
    IF Len(s) = 0 THEN Err("Empty")
    ELSE IF Len(s) = 1 /\ s[1] \in {"+", "-"} THEN Err("InvalidDigit")
    ELSE LET ds == IF s[1] = "+" THEN Tail(s) ELSE s IN
         IF \E i \in 1..Len(ds) : ~IsDigit(ds[i]) THEN Err("InvalidDigit")
         ELSE DecimalValue(ds)

AdtExt == <<"a", "d", "t">>

(***************************************************************************)
(* parse_root_adt_filename                                                 *)
(***************************************************************************)
parse_root_adt_filename(fname) ==
    LET ext == PathExtension(fname)
        stem == PathFileStem(fname)
    IN  IF ext.tag = "None" THEN None
        ELSE IF to_ascii_lowercase(ext.val) # AdtExt THEN None
        ELSE IF stem.tag = "None" THEN None
        ELSE LET parts == Split(stem.val, "_") IN
             IF Len(parts) # 3 THEN None
             ELSE LET x == ParseU32(parts[2])
                      y == ParseU32(parts[3])
                  IN IF x.tag = "Err" THEN None
                     ELSE IF y.tag = "Err" THEN None
                     ELSE Some(<<parts[1], x.val, y.val>>)

(***************************************************************************)
(* tile_key: tile_y * 64 + tile_x in u32 arithmetic, wrapping at 2^32      *)
(***************************************************************************)
TilesPerSide == 64

\* tile_key with the grid side off by one (tile_y * 63 + tile_x).
tile_key_side63(tile_x, tile_y) ==
    LET lo == Lo(tile_y) * (TilesPerSide - 1) + Lo(tile_x)
        hi == Hi(tile_y) * (TilesPerSide - 1) + Hi(tile_x) + (lo \div Limb)
    IN  <<hi % Limb, lo % Limb>>

tile_key(tile_x, tile_y) ==
    LET lo == Lo(tile_y) * TilesPerSide + Lo(tile_x)
        hi == Hi(tile_y) * TilesPerSide + Hi(tile_x) + (lo \div Limb)
    IN  <<hi % Limb, lo % Limb>>

(***************************************************************************)
(* encode_tile_b64: 256 u32 -> 1024 bytes little-endian -> base64 text     *)
(***************************************************************************)
TileLen == 256

\* u32::to_be_bytes in place of to_le_bytes: most significant byte first.
BeByte(v, k) ==
    CASE k = 0 -> Hi(v) \div 256
      [] k = 1 -> Hi(v) % 256
      [] k = 2 -> Lo(v) \div 256
      [] k = 3 -> Lo(v) % 256

\* u32::to_le_bytes, byte k (0 is the first, least significant)
LeByte(v, k) ==
    CASE k = 0 -> Lo(v) % 256
      [] k = 1 -> Lo(v) \div 256
      [] k = 2 -> Hi(v) % 256
      [] k = 3 -> Hi(v) \div 256

\* raw after the loop of extend_from_slice(&v.to_le_bytes())
RawBytes(ids) == [i \in 1..(4 * Len(ids)) |-> LeByte(ids[((i - 1) \div 4) + 1], (i - 1) % 4)]

B64Alphabet == UpperChars \o LowerChars \o DigitChars \o <<"+", "/">>

\* general_purpose::STANDARD.encode: three bytes to four characters of the
\* standard alphabet, the last group padded with "=".
Base64Encode(b) ==
    LET n == Len(b)
        At(i) == IF i <= n THEN b[i] ELSE 0
        Sextet(g, p) ==
            CASE p = 0 -> At(3*g + 1) \div 4
              [] p = 1 -> (At(3*g + 1) % 4) * 16 + (At(3*g + 2) \div 16)
              [] p = 2 -> (At(3*g + 2) % 16) * 4 + (At(3*g + 3) \div 64)
              [] p = 3 -> At(3*g + 3) % 64
    IN  [j \in 1..(4 * ((n + 2) \div 3)) |->
            LET g == (j - 1) \div 4
                p == (j - 1) % 4
            IN  IF 3*g + p > n THEN "=" ELSE B64Alphabet[Sextet(g, p) + 1]]

encode_tile_b64(area_ids_256) ==
    IF Len(area_ids_256) # TileLen
    THEN Err(<<"expected 256 area IDs, got", Len(area_ids_256)>>)
    ELSE Ok(Base64Encode(RawBytes(area_ids_256)))

(***************************************************************************)
(* parse_adt_areaids.  The file read and Adt::from_reader are the external *)
(* parser: adt is its outcome, Err(e) or Ok(the area ids of mcnk_chunks    *)
(* in parser order).                                                       *)
(***************************************************************************)
\* Vec::resize(n, fill): truncates a longer vector, pads a shorter one.
Resize(v, n, fill) == [i \in 1..n |-> IF i <= Len(v) THEN v[i] ELSE fill]

\* parse_adt_areaids without the resize: the parser's sequence as it came.
parse_adt_areaids_unpadded(adt) ==
    IF adt.tag = "Err" THEN Err(adt.err)
    ELSE IF Len(adt.val) = 0 THEN Ok(None)
    ELSE Ok(Some(adt.val))

parse_adt_areaids(adt) ==
    IF adt.tag = "Err" THEN Err(adt.err)
    ELSE LET area_ids == adt.val IN
         IF Len(area_ids) = 0 THEN Ok(None)
         ELSE IF Len(area_ids) # TileLen THEN Ok(Some(Resize(area_ids, TileLen, U32Of(0))))
         ELSE Ok(Some(area_ids))

(***************************************************************************)
(* The reader of the artifact: base64 text back to bytes, bytes back to    *)
(* little-endian u32 words.                                                *)
(***************************************************************************)
B64Chars == {B64Alphabet[i] : i \in 1..Len(B64Alphabet)}
B64Index == [c \in B64Chars |-> (CHOOSE i \in 1..Len(B64Alphabet) : B64Alphabet[i] = c) - 1]

\* Standard base64 decoding with padding; Err on malformed text.
Base64Decode(t) ==
    LET n == Len(t)
        pad == IF n >= 2 /\ t[n] = "=" /\ t[n-1] = "=" THEN 2
               ELSE IF n >= 1 /\ t[n] = "=" THEN 1 ELSE 0
        S(i) == IF i <= n - pad THEN B64Index[t[i]] ELSE 0
    IN  IF n % 4 # 0 \/ \E i \in 1..(n - pad) : t[i] \notin B64Chars
        THEN Err("invalid base64")
        ELSE Ok([k \in 1..(3 * (n \div 4) - pad) |->
                    LET g == (k - 1) \div 3
                        r == (k - 1) % 3
                    IN  CASE r = 0 -> S(4*g + 1) * 4 + (S(4*g + 2) \div 16)
                          [] r = 1 -> (S(4*g + 2) % 16) * 16 + (S(4*g + 3) \div 4)
                          [] r = 2 -> (S(4*g + 3) % 4) * 64 + S(4*g + 4)])

\* u32::from_le_bytes over consecutive groups of four bytes
WordsFromLe(b) ==
    [i \in 1..(Len(b) \div 4) |->
        <<b[4*i - 1] + 256 * b[4*i], b[4*i - 3] + 256 * b[4*i - 2]>>]

(***************************************************************************)
(* Inputs of the component specifications                                  *)
(***************************************************************************)
\* 0, 1, 255, 256, 65535, 0x01020304, 2^31, 2^32 - 1
Samples == <<U32Of(0), U32Of(1), U32Of(255), U32Of(256), U32Of(65535),
             <<258, 772>>, <<32768, 0>>, <<65535, 65535>>>>

\* A u32 sequence of length n that walks Samples from offset by stride.
Pattern(n, stride, offset) ==
    [i \in 1..n |-> Samples[((i * stride + offset) % Len(Samples)) + 1]]

MaxStride == 3
LenSlack == 1
EncoderLens == {0, 1} \cup ((TileLen - LenSlack)..(TileLen + LenSlack))

Idle == <<>>

\* The driver's variables in the component specifications, and the reverse.
DriverIdle ==
    /\ env = Idle /\ pc = "idle" /\ cur = 0 /\ dataDir = Idle /\ artifacts = Idle
    /\ remaining = {} /\ tiles = Idle /\ parsed = 0 /\ trail = Idle
    /\ stdout = Idle /\ stderr = Idle
CompIdle ==
    /\ phase = "idle" /\ name = Idle /\ resolved = Idle /\ tx = Idle /\ ty = Idle
    /\ key = Idle /\ chunks = Idle /\ extracted = Idle /\ encoded = Idle

(***************************************************************************)
(* SpecEncoder: encode_tile_b64 applied to sampled sequences               *)
(***************************************************************************)
InitEncoder ==
    /\ DriverIdle
    /\ phase = "input"
    /\ \E n \in EncoderLens, stride \in 0..MaxStride, offset \in 0..(Len(Samples) - 1) :
            chunks = Pattern(n, stride, offset)
    /\ name = Idle /\ resolved = Idle /\ tx = Idle /\ ty = Idle /\ key = Idle
    /\ extracted = Idle /\ encoded = Idle

Encode ==
    /\ phase = "input"
    /\ encoded' = encode_tile_b64(chunks)
    /\ phase' = "encoded"
    /\ UNCHANGED <<name, resolved, tx, ty, key, chunks, extracted>>
    /\ UNCHANGED drvVars

NextEncoder == Encode

SpecEncoder == InitEncoder /\ [][NextEncoder]_vars

\* C6: a sequence of 256 u32 encodes to text that decodes to exactly 1024
\* bytes, each integer as 4 little-endian bytes in sequence order, and the
\* bytes read back as little-endian u32 give the sequence again; a sequence
\* of any other length gives an error and no record.
EncoderRoundTrip ==
    phase = "encoded" =>
        IF Len(chunks) = TileLen
        THEN /\ encoded.tag = "Ok"
             /\ LET d == Base64Decode(encoded.val) IN
                /\ d.tag = "Ok"
                /\ Len(d.val) = 1024
                /\ \A i \in 1..TileLen :
                      /\ d.val[4*i - 3] + 256 * d.val[4*i - 2] = Lo(chunks[i])
                      /\ d.val[4*i - 1] + 256 * d.val[4*i] = Hi(chunks[i])
                      /\ \A k \in 0..3 : d.val[4*i - 3 + k] \in 0..255
                /\ WordsFromLe(d.val) = chunks
        ELSE encoded.tag = "Err"

EncoderRoundTripWitness ==
    /\ phase = "encoded"
    /\ Len(chunks) = TileLen
    /\ chunks[1] = <<258, 772>> /\ chunks[2] = <<32768, 0>>
    /\ encoded.tag = "Ok"

(***************************************************************************)
(* SpecResolver: parse_root_adt_filename applied to generated file names   *)
(***************************************************************************)
MaxStemLen == 5
StemChars == {"K", "_", "1", "0", "+", "-"}

RECURSIVE SeqsUpTo(_, _)
SeqsUpTo(S, n) ==
    IF n = 0 THEN {<<>>}
    ELSE LET shorter == SeqsUpTo(S, n - 1) IN
         shorter \cup {Append(s, c) : s \in shorter, c \in S}

Suffixes == { <<>>,
              <<".">>,
              <<".", "a", "d", "t">>,
              <<".", "A", "D", "T">>,
              <<".", "a", "D", "t">>,
              <<".", "t", "x", "t">>,
              <<".", "a", "d">>,
              <<".", "a", "d", "t", "x">>,
              <<".", "a", "d", "t", ".", "b", "a", "k">>,
              <<".", "b", "a", "k", ".", "a", "d", "t">> }

ExtraNames == {
    <<"K","a","l","i","m","d","o","r","_","1","_","2",".","a","d","t">>,
    <<"K","a","l","i","m","d","o","r","_","1","_","2","_","o","b","j","0",".","a","d","t">>,
    <<"K","a","l","i","m","d","o","r","_","1","_","2","_","t","e","x","0",".","a","d","t">>,
    <<"K","a","l","i","m","d","o","r","_","1","_","2","_","l","o","d",".","a","d","t">>,
    <<"n","o","t","a","n","a","d","t",".","t","x","t">>,
    <<"K","_","4","2","9","4","9","6","7","2","9","5","_","6","3",".","a","d","t">>,
    <<"K","_","4","2","9","4","9","6","7","2","9","6","_","6","3",".","a","d","t">>,
    <<"K","_","1","_","9","9","9","9","9","9","9","9","9","9","9",".","a","d","t">>,
    <<"K","_","1","x","_","2",".","a","d","t">>,
    <<"K","_","1","_","2"," ",".","a","d","t">> }

ResolverNames == {st \o sx : st \in SeqsUpTo(StemChars, MaxStemLen), sx \in Suffixes} \cup ExtraNames

InitResolver ==
    /\ DriverIdle
    /\ phase = "input"
    /\ name \in ResolverNames
    /\ resolved = Idle /\ tx = Idle /\ ty = Idle /\ key = Idle
    /\ chunks = Idle /\ extracted = Idle /\ encoded = Idle

Resolve ==
    /\ phase = "input"
    /\ resolved' = parse_root_adt_filename(name)
    /\ phase' = "resolved"
    /\ UNCHANGED <<name, tx, ty, key, chunks, extracted, encoded>>
    /\ UNCHANGED drvVars

NextResolver == Resolve

SpecResolver == InitResolver /\ [][NextResolver]_vars

\* The shape the contract of the resolver describes, read off the name alone.
DotPositions(s) == {i \in 1..Len(s) : s[i] = "."}
LastDot(s) == CHOOSE i \in DotPositions(s) : \A j \in DotPositions(s) : j <= i
ContractStem(s) == SubSeq(s, 1, LastDot(s) - 1)
ContractExt(s) == SubSeq(s, LastDot(s) + 1, Len(s))
Underscores(s) == {i \in 1..Len(s) : s[i] = "_"}
FirstUnderscore(s) == CHOOSE i \in Underscores(s) : \A j \in Underscores(s) : i <= j
SecondUnderscore(s) == CHOOSE i \in Underscores(s) : \A j \in Underscores(s) : j <= i
Segment1(s) == SubSeq(s, 1, FirstUnderscore(s) - 1)
Segment2(s) == SubSeq(s, FirstUnderscore(s) + 1, SecondUnderscore(s) - 1)
Segment3(s) == SubSeq(s, SecondUnderscore(s) + 1, Len(s))
DigitSet == {DigitChars[i] : i \in 1..Len(DigitChars)}
AllDigits(s) == Len(s) > 0 /\ \A i \in 1..Len(s) : s[i] \in DigitSet
ExtMatches(e) ==
    /\ Len(e) = 3
    /\ e[1] \in {"a", "A"} /\ e[2] \in {"d", "D"} /\ e[3] \in {"t", "T"}

ContractAccepts(s) ==
    /\ DotPositions(s) # {}
    /\ ExtMatches(ContractExt(s))
    /\ Cardinality(Underscores(ContractStem(s))) = 2
    /\ Len(Segment1(ContractStem(s))) > 0
    /\ AllDigits(Segment2(ContractStem(s)))
    /\ AllDigits(Segment3(ContractStem(s)))

\* C1: the resolver returns Some(continent, x, y) exactly for the names
\* whose stem has three underscore-delimited segments, the first non-empty,
\* the second and third base-10 non-negative integers without extraneous
\* characters, and whose extension is the tile extension in any case; every
\* other name (empty continent token, signed coordinate, ...) yields None.
ResolverContract ==
    phase = "resolved" =>
        /\ (resolved.tag = "Some") <=> ContractAccepts(name)
        /\ resolved.tag = "Some" => resolved.val[1] = Segment1(ContractStem(name))

\* What the code accepts instead: the continent token may be empty, each
\* coordinate may carry one leading "+", and its value must fit in 32 bits.
PlusDigits(s) == IF Len(s) > 0 /\ s[1] = "+" THEN AllDigits(Tail(s)) ELSE AllDigits(s)
ResolverAcceptsShape ==
    phase = "resolved" =>
        /\ resolved.tag = "Some" =>
              /\ DotPositions(name) # {}
              /\ ExtMatches(ContractExt(name))
              /\ Cardinality(Underscores(ContractStem(name))) = 2
              /\ PlusDigits(Segment2(ContractStem(name)))
              /\ PlusDigits(Segment3(ContractStem(name)))
        /\ ContractAccepts(name)
              /\ Len(Segment2(ContractStem(name))) <= 9
              /\ Len(Segment3(ContractStem(name))) <= 9
              => resolved.tag = "Some"

(***************************************************************************)
(* SpecKey: tile_key applied to coordinates in and just outside the grid   *)
(***************************************************************************)
KeySlack == 1
GridCoords == {U32Of(n) : n \in 0..(TilesPerSide - 1)}
KeyCoords == {U32Of(n) : n \in 0..(TilesPerSide - 1 + KeySlack)}
                \cup {<<1024, 0>>, <<65535, 65535>>}

InitKey ==
    /\ DriverIdle
    /\ phase = "input"
    /\ tx \in KeyCoords /\ ty \in KeyCoords
    /\ key = Idle
    /\ name = Idle /\ resolved = Idle /\ chunks = Idle /\ extracted = Idle /\ encoded = Idle

ComputeKey ==
    /\ phase = "input"
    /\ key' = tile_key(tx, ty)
    /\ phase' = "keyed"
    /\ UNCHANGED <<name, resolved, tx, ty, chunks, extracted, encoded>>
    /\ UNCHANGED drvVars

NextKey == ComputeKey

SpecKey == InitKey /\ [][NextKey]_vars

\* C8: over 0 <= x, y < 64 the key is y*64+x, lies in [0, 4096), and no
\* other coordinate pair of that domain has the same key.
TileKeyInjective ==
    (phase = "keyed" /\ tx \in GridCoords /\ ty \in GridCoords) =>
        /\ Hi(key) = 0
        /\ Lo(key) \in 0..4095
        /\ Lo(key) = Lo(ty) * 64 + Lo(tx)
        /\ \A x2 \in GridCoords, y2 \in GridCoords :
              tile_key(x2, y2) = key => (x2 = tx /\ y2 = ty)

TileKeyInjectiveWitness ==
    /\ phase = "keyed"
    /\ tx = U32Of(63) /\ ty = U32Of(63)
    /\ key = U32Of(4095)

(***************************************************************************)
(* SpecExtractor: parse_adt_areaids applied to parser outcomes of every    *)
(* length up to MaxChunks, the result handed to encode_tile_b64 as the     *)
(* driver does                                                             *)
(***************************************************************************)
MaxChunks == 257

ParserOutcomes ==
    {Err("malformed")} \cup
    {Ok(Pattern(n, stride, offset)) : n \in 0..MaxChunks, stride \in 0..MaxStride, offset \in 0..1}

InitExtractor ==
    /\ DriverIdle
    /\ phase = "input"
    /\ chunks \in ParserOutcomes
    /\ extracted = Idle /\ encoded = Idle
    /\ name = Idle /\ resolved = Idle /\ tx = Idle /\ ty = Idle /\ key = Idle

Extract ==
    /\ phase = "input"
    /\ extracted' = parse_adt_areaids(chunks)
    /\ phase' = "extracted"
    /\ UNCHANGED <<name, resolved, tx, ty, key, chunks, encoded>>
    /\ UNCHANGED drvVars

\* The Ok(Some(area_ids)) arm of the driver's match: the encoder is called.
EncodeExtracted ==
    /\ phase = "extracted"
    /\ extracted.tag = "Ok" /\ extracted.val.tag = "Some"
    /\ encoded' = encode_tile_b64(extracted.val.val)
    /\ phase' = "encoded"
    /\ UNCHANGED <<name, resolved, tx, ty, key, chunks, extracted>>
    /\ UNCHANGED drvVars

NextExtractor == Extract \/ EncodeExtracted

SpecExtractor == InitExtractor /\ [][NextExtractor]_vars

\* C5: an empty parser sequence gives "no data" and nothing is encoded; n
\* entries, 0 < n < 256, become those n values in order followed by 256-n
\* zeros; 256 entries pass unchanged; so whatever reaches the encoder has
\* length 256 and the encoder never answers with its length error.
ExtractorNormalizes ==
    /\ (phase \in {"extracted", "encoded"} /\ chunks.tag = "Ok") =>
          LET n == Len(chunks.val) IN
          /\ n = 0 => (extracted = Ok(None) /\ phase = "extracted" /\ ~ENABLED EncodeExtracted)
          /\ (0 < n /\ n < 256) =>
                /\ extracted.tag = "Ok" /\ extracted.val.tag = "Some"
                /\ Len(extracted.val.val) = 256
                /\ \A i \in 1..n : extracted.val.val[i] = chunks.val[i]
                /\ \A i \in (n + 1)..256 : extracted.val.val[i] = <<0, 0>>
          /\ n = 256 => extracted = Ok(Some(chunks.val))
    /\ phase = "encoded" =>
          /\ Len(extracted.val.val) = 256
          /\ encoded.tag = "Ok"

ExtractorNormalizesWitness ==
    /\ phase = "encoded"
    /\ Len(chunks.val) = 10
    /\ chunks.val[10] # <<0, 0>>
    /\ extracted.val.val[10] = chunks.val[10]
    /\ extracted.val.val[11] = <<0, 0>>
    /\ encoded.tag = "Ok"

(***************************************************************************)
(* TileGridExport: tiles is a BTreeMap<u32, String>, here a function from  *)
(* the keys present to their strings; u32 keys order by value.             *)
(***************************************************************************)
KeyLess(a, b) == Hi(a) < Hi(b) \/ (Hi(a) = Hi(b) /\ Lo(a) < Lo(b))

\* TileGridExport::new: an empty map
EmptyTiles == [k \in {} |-> <<>>]

\* An insert that keeps the value of an existing key (entry().or_insert()).
BTreeInsertKeepFirst(m, k, v) ==
    [x \in (DOMAIN m) \cup {k} |-> IF x \in DOMAIN m THEN m[x] ELSE v]

\* BTreeMap::insert: the value of an existing key is replaced
BTreeInsert(m, k, v) == [x \in (DOMAIN m) \cup {k} |-> IF x = k THEN v ELSE m[x]]

\* Iteration over &self.tiles: the entries by ascending key
RECURSIVE BTreeIter(_)
BTreeIter(m) ==
    IF DOMAIN m = {} THEN <<>>
    ELSE LET k == CHOOSE a \in DOMAIN m : \A b \in DOMAIN m : a = b \/ KeyLess(a, b)
         IN  <<<<k, m[k]>>>> \o BTreeIter([x \in (DOMAIN m) \ {k} |-> m[x]])

\* The lines export_lua writes, in order, each line a tuple of its pieces.
ExportLines(continent_name, m) ==
    LET it == BTreeIter(m) IN
    << <<"-- Auto-generated AreaID grid for ", continent_name>>,
       <<"-- Each tile is 16x16 chunks (256 u32 AreaIDs), base64 encoded.">>,
       <<"">>,
       <<"local _, addon = ...">>,
       <<"">>,
       <<"local tiles = {">> >>
    \o [i \in 1..Len(it) |-> <<"  [", it[i][1], "] = [[", it[i][2], "]],">>]
    \o << <<"}">>,
          <<"">>,
          <<"addon:RegisterTileGrid(\"", continent_name, "\", {">>,
          <<"  name = \"", continent_name, "\",">>,
          <<"  tileSize = 16,">>,
          <<"  tilesPerSide = 64,">>,
          <<"  tiles = tiles,">>,
          <<"})">> >>

(***************************************************************************)
(* main's configuration                                                    *)
(***************************************************************************)
Continents == << [dir_name |-> "kalimdor_adts", continent_name |-> "Kalimdor"],
                 [dir_name |-> "azeroth_adts", continent_name |-> "Azeroth"] >>

\* out_dir.join(format!("{}_tiles.lua", continent_name))
OutPath(c) == <<"Data", Continents[c].continent_name, "_tiles.lua">>

(***************************************************************************)
(* The file system the run meets.  A directory entry is a name, whether it *)
(* is a regular file, and what the external parser makes of its bytes.     *)
(***************************************************************************)
\* 1 Kalimdor_1_2.adt       root tile (1, 2), three chunks 5, 7, 9
\* 2 Kalimdor_1_2_obj0.adt  auxiliary file of the same tile
\* 3 notanadt.txt           not a tile file
\* 4 Kalimdor_01_2.adt      a second name for tile (1, 2), one chunk 7
\* 5 Kalimdor_0_1.ADT       root tile (0, 1), malformed
\* 6 Kalimdor_3_0.adt       root tile (3, 0) without chunks
\* 7 Kalimdor_2_0.adt       not a regular file (a FIFO, say) that reads as a tile
\* 8 Kalimdor_2_1.adt       root tile (2, 1), all 256 chunks
FilePool == <<
    [name |-> <<"K","a","l","i","m","d","o","r","_","1","_","2",".","a","d","t">>, is_file |-> TRUE,
     adt |-> Ok(<<U32Of(5), U32Of(7), U32Of(9)>>)],
    [name |-> <<"K","a","l","i","m","d","o","r","_","1","_","2","_","o","b","j","0",".","a","d","t">>, is_file |-> TRUE,
     adt |-> Ok(<<U32Of(4)>>)],
    [name |-> <<"n","o","t","a","n","a","d","t",".","t","x","t">>, is_file |-> TRUE,
     adt |-> Err(<<"malformed">>)],
    [name |-> <<"K","a","l","i","m","d","o","r","_","0","1","_","2",".","a","d","t">>, is_file |-> TRUE,
     adt |-> Ok(<<U32Of(7)>>)],
    [name |-> <<"K","a","l","i","m","d","o","r","_","0","_","1",".","A","D","T">>, is_file |-> TRUE,
     adt |-> Err(<<"malformed">>)],
    [name |-> <<"K","a","l","i","m","d","o","r","_","3","_","0",".","a","d","t">>, is_file |-> TRUE,
     adt |-> Ok(<<>>)],
    [name |-> <<"K","a","l","i","m","d","o","r","_","2","_","0",".","a","d","t">>, is_file |-> FALSE,
     adt |-> Ok(<<U32Of(8)>>)],
    [name |-> <<"K","a","l","i","m","d","o","r","_","2","_","1",".","a","d","t">>, is_file |-> TRUE,
     adt |-> Ok(Pattern(TileLen, 1, 0))] >>

Files == 1..Len(FilePool)

\* adt_dir.join(file name)
EntryPath(c, f) == <<Continents[c].dir_name, FilePool[f].name>>

MaxFiles == 3

DirStates ==
    {[kind |-> "missing", entries |-> {}], [kind |-> "unreadable", entries |-> {}]}
    \cup {[kind |-> "dir", entries |-> S] : S \in {T \in SUBSET Files : Cardinality(T) <= MaxFiles}}

Absent == [state |-> "absent"]
Stale == [state |-> "file", lines |-> << <<"-- stale">> >>]

\* The artifacts before the run: none without a Data directory; with one, a
\* Kalimdor artifact of an earlier run and no Azeroth artifact.
InitialArtifacts(od) ==
    [c \in 1..Len(Continents) |-> IF od = "exists" /\ c = 1 THEN Stale ELSE Absent]

(***************************************************************************)
(* The loop body of build_tile_export for one entry: what it does with it  *)
(***************************************************************************)
\* The loop body with the parser's error propagated (parse_adt_areaids(&path)?).
ScanOutcomePropagating(e) ==
    IF ~e.is_file THEN [kind |-> "skip"]
    ELSE LET r == parse_root_adt_filename(e.name) IN
         IF r.tag = "None" THEN [kind |-> "skip"]
         ELSE LET a == parse_adt_areaids(e.adt) IN
              IF a.tag = "Err" THEN [kind |-> "abort", err |-> a.err]
              ELSE IF a.val.tag = "None" THEN [kind |-> "nodata"]
              ELSE [kind |-> "insert",
                    key |-> tile_key(r.val[2], r.val[3]),
                    b64 |-> encode_tile_b64(a.val.val).val]

\* The loop body without the is_file test.
ScanOutcomeAnyEntry(e) ==
    LET r == parse_root_adt_filename(e.name) IN
    IF r.tag = "None" THEN [kind |-> "skip"]
    ELSE LET a == parse_adt_areaids(e.adt) IN
         IF a.tag = "Err" THEN [kind |-> "error", err |-> a.err]
         ELSE IF a.val.tag = "None" THEN [kind |-> "nodata"]
         ELSE [kind |-> "insert",
               key |-> tile_key(r.val[2], r.val[3]),
               b64 |-> encode_tile_b64(a.val.val).val]

ScanOutcome(e) ==
    IF ~e.is_file THEN [kind |-> "skip"]
    ELSE LET r == parse_root_adt_filename(e.name) IN
         IF r.tag = "None" THEN [kind |-> "skip"]
         ELSE LET a == parse_adt_areaids(e.adt) IN
              IF a.tag = "Err" THEN [kind |-> "error", err |-> a.err]
              ELSE IF a.val.tag = "None" THEN [kind |-> "nodata"]
              ELSE LET b64 == encode_tile_b64(a.val.val) IN
                   IF b64.tag = "Err" THEN [kind |-> "abort", err |-> b64.err]
                   ELSE [kind |-> "insert",
                         key |-> tile_key(r.val[2], r.val[3]),
                         b64 |-> b64.val]

\* The loop body applied to each entry of the pool.
PoolOutcome == [f \in Files |-> ScanOutcome(FilePool[f])]

(***************************************************************************)
(* Spec: main, generate_continent, build_tile_export, export_lua           *)
(***************************************************************************)
Init ==
    /\ CompIdle
    /\ \E od \in {"exists", "absent", "blocked"}, d1 \in DirStates, d2 \in DirStates :
            /\ Cardinality(d1.entries) + Cardinality(d2.entries) <= MaxFiles
            /\ d1.entries \cap d2.entries = {}
            /\ env = [outDir |-> od, dirs |-> <<d1, d2>>]
    /\ pc = "start"
    /\ cur = 0
    /\ dataDir = IF env.outDir = "exists" THEN "exists" ELSE "absent"
    /\ artifacts = InitialArtifacts(env.outDir)
    /\ remaining = {}
    /\ tiles = EmptyTiles
    /\ parsed = 0
    /\ trail = <<>>
    /\ stdout = <<>>
    /\ stderr = <<>>

\* main up to the first generate_continent: the banner, the Data directory.
MainStart ==
    /\ pc = "start"
    /\ IF dataDir = "exists"
       THEN /\ stdout' = Append(stdout, <<"ZoneMap Tile Generator">>)
            /\ pc' = "continent" /\ cur' = 1
            /\ UNCHANGED <<dataDir, stderr>>
       ELSE IF env.outDir = "blocked"
       THEN /\ stdout' = Append(stdout, <<"ZoneMap Tile Generator">>)
            /\ stderr' = Append(stderr, <<"Failed to create Data directory">>)
            /\ pc' = "returned"
            /\ UNCHANGED <<dataDir, cur>>
       ELSE /\ dataDir' = "exists"
            /\ stdout' = stdout \o << <<"ZoneMap Tile Generator">>, <<"Created Data/ directory">> >>
            /\ pc' = "continent" /\ cur' = 1
            /\ UNCHANGED stderr
    /\ UNCHANGED <<env, artifacts, remaining, tiles, parsed, trail>>
    /\ UNCHANGED compVars

\* Where main goes when generate_continent(cur) returns.
NextPc == IF cur = Len(Continents) THEN "epilogue" ELSE "continent"
NextCur == IF cur = Len(Continents) THEN cur ELSE cur + 1

\* An Err arm that gives up on the remaining continents.
SkipContinentAndReturn(e) ==
    /\ stderr' = Append(stderr, <<"Skipping", Continents[cur].continent_name, e>>)
    /\ pc' = "returned" /\ cur' = cur

\* generate_continent's Err arm: build_tile_export returned Err(e).
SkipContinent(e) ==
    /\ stderr' = Append(stderr, <<"Skipping", Continents[cur].continent_name, e>>)
    /\ pc' = NextPc /\ cur' = NextCur

\* generate_continent entered; build_tile_export up to the first entry:
\* the new export, the existence check, read_dir.
CheckDirectory ==
    /\ pc = "continent"
    /\ tiles' = EmptyTiles
    /\ parsed' = 0
    /\ trail' = <<>>
    /\ LET d == env.dirs[cur] IN
       IF d.kind = "missing"
       THEN /\ SkipContinent(<<"Directory not found", Continents[cur].dir_name>>)
            /\ UNCHANGED <<stdout, remaining>>
       ELSE IF d.kind = "unreadable"
       THEN /\ stdout' = Append(stdout, <<"Scanning", Continents[cur].dir_name>>)
            /\ SkipContinent(<<"io error", "read_dir">>)
            /\ UNCHANGED remaining
       ELSE /\ stdout' = Append(stdout, <<"Scanning", Continents[cur].dir_name>>)
            /\ remaining' = d.entries
            /\ pc' = "scan"
            /\ UNCHANGED <<stderr, cur>>
    /\ UNCHANGED <<env, dataDir, artifacts>>
    /\ UNCHANGED compVars

\* One iteration of the for loop, on whichever entry read_dir yields next.
ScanEntry ==
    /\ pc = "scan"
    /\ \E f \in remaining :
        LET o == PoolOutcome[f] IN
        /\ remaining' = remaining \ {f}
        /\ trail' = Append(trail, [continent |-> cur, file |-> f, did |-> o.kind])
        /\ IF o.kind = "insert"
           THEN /\ tiles' = BTreeInsert(tiles, o.key, o.b64)
                /\ parsed' = parsed + 1
                /\ UNCHANGED <<pc, cur, stderr>>
           ELSE IF o.kind = "error"
           THEN /\ stderr' = Append(stderr, <<"ERROR parsing", EntryPath(cur, f), o.err>>)
                /\ UNCHANGED <<pc, cur, tiles, parsed>>
           ELSE IF o.kind = "abort"
           THEN /\ SkipContinent(o.err)
                /\ UNCHANGED <<tiles, parsed>>
           ELSE UNCHANGED <<pc, cur, tiles, parsed, stderr>>
    /\ UNCHANGED <<env, dataDir, artifacts, stdout>>
    /\ UNCHANGED compVars

\* let entry = entry?; with an I/O error of the directory iterator.
EntryError ==
    /\ pc = "scan"
    /\ remaining # {}
    /\ SkipContinent(<<"io error", "read_dir entry">>)
    /\ UNCHANGED <<env, dataDir, artifacts, remaining, tiles, parsed, trail, stdout>>
    /\ UNCHANGED compVars

\* An end of the loop that turns a scan without tiles into an error.
FinishScanRequiringTiles ==
    /\ pc = "scan"
    /\ remaining = {}
    /\ IF parsed = 0
       THEN /\ SkipContinent(<<"no tiles", Continents[cur].dir_name>>)
            /\ UNCHANGED stdout
       ELSE /\ stdout' = Append(stdout, <<"Parsed", parsed, "tiles">>)
            /\ pc' = "write"
            /\ UNCHANGED <<cur, stderr>>
    /\ UNCHANGED <<env, dataDir, artifacts, remaining, tiles, parsed, trail>>
    /\ UNCHANGED compVars

\* The loop is over: the count is printed and build_tile_export returns Ok.
FinishScan ==
    /\ pc = "scan"
    /\ remaining = {}
    /\ stdout' = Append(stdout, <<"Parsed", parsed, "tiles">>)
    /\ pc' = "write"
    /\ UNCHANGED <<env, cur, dataDir, artifacts, remaining, tiles, parsed, trail, stderr>>
    /\ UNCHANGED compVars

\* generate_continent's Ok arm: export_lua, whose File::create or one of
\* whose writes may fail; a failed write leaves the lines written before it.
WriteExport ==
    /\ pc = "write"
    /\ LET lines == ExportLines(Continents[cur].continent_name, tiles) IN
       \E io \in {<<"ok", 0>>, <<"create fails", 0>>}
                 \cup {<<"write fails", n>> : n \in {Len(lines) - 1}} :
          IF io[1] = "ok"
          THEN /\ artifacts' = [artifacts EXCEPT ![cur] = [state |-> "file", lines |-> lines]]
               /\ stdout' = Append(stdout, <<"Wrote", OutPath(cur)>>)
               /\ UNCHANGED stderr
          ELSE IF io[1] = "create fails"
          THEN /\ stderr' = Append(stderr, <<"Failed to write", OutPath(cur), io[1]>>)
               /\ UNCHANGED <<artifacts, stdout>>
          ELSE /\ artifacts' = [artifacts EXCEPT
                                  ![cur] = [state |-> "file", lines |-> SubSeq(lines, 1, io[2])]]
               /\ stderr' = Append(stderr, <<"Failed to write", OutPath(cur), io[1]>>)
               /\ UNCHANGED stdout
    /\ pc' = NextPc /\ cur' = NextCur
    /\ UNCHANGED <<env, dataDir, remaining, tiles, parsed, trail>>
    /\ UNCHANGED compVars

\* main after the last generate_continent.
MainDone ==
    /\ pc = "epilogue"
    /\ stdout' = Append(stdout, <<"Done!">>)
    /\ pc' = "done"
    /\ UNCHANGED <<env, cur, dataDir, artifacts, remaining, tiles, parsed, trail, stderr>>
    /\ UNCHANGED compVars

Next ==
    \/ MainStart
    \/ CheckDirectory
    \/ ScanEntry
    \/ EntryError
    \/ FinishScan
    \/ WriteExport
    \/ MainDone

Spec == Init /\ [][Next]_vars

(***************************************************************************)
(* What the output streams and the history say about a continent's run     *)
(***************************************************************************)
ContinentIds == 1..Len(Continents)

\* generate_continent(c) has returned.
Finished(c) == pc \in {"epilogue", "done"} \/ (pc \in {"continent", "scan", "write"} /\ cur > c)

\* "Scanning: <dir>" was printed: the existence check passed.
Scanned(c) ==
    \E i \in DOMAIN stdout : stdout[i][1] = "Scanning" /\ stdout[i][2] = Continents[c].dir_name

\* "  Parsed <n> tiles" is printed once per completed scan, after "Scanning".
ScanCompleted(c) ==
    \E i \in DOMAIN stdout :
        /\ stdout[i][1] = "Scanning" /\ stdout[i][2] = Continents[c].dir_name
        /\ i < Len(stdout) /\ stdout[i + 1][1] = "Parsed"

WroteAt(c) == {i \in DOMAIN stdout : stdout[i][1] = "Wrote" /\ stdout[i][2] = OutPath(c)}
FailedAt(c) == {i \in DOMAIN stderr : stderr[i][1] = "Failed to write" /\ stderr[i][2] = OutPath(c)}
SkippedAt(c) ==
    {i \in DOMAIN stderr :
        stderr[i][1] = "Skipping" /\ stderr[i][2] = Continents[c].continent_name}

\* export_lua either prints "Wrote" or "Failed to write": one line per call.
WriterCalls(c) == Cardinality(WroteAt(c)) + Cardinality(FailedAt(c))

Exported(c) == WroteAt(c) # {}
ExportFailed(c) == FailedAt(c) # {}
SkippedFor(c, why) == \E i \in SkippedAt(c) : stderr[i][3][1] = why

\* A complete artifact of continent c: header first, closing line last.
CompleteArtifact(c) ==
    /\ artifacts[c].state = "file"
    /\ Len(artifacts[c].lines) >= 14
    /\ artifacts[c].lines[1] =
          <<"-- Auto-generated AreaID grid for ", Continents[c].continent_name>>
    /\ artifacts[c].lines[Len(artifacts[c].lines)] = <<"})">>

\* The entries of the pool by what they are.
Regular(f) == FilePool[f].is_file
Accepted(f) == parse_root_adt_filename(FilePool[f].name).tag = "Some"
IsAccepted == [f \in Files |-> Accepted(f)]
Failing(f) == Regular(f) /\ IsAccepted[f] /\ FilePool[f].adt.tag = "Err"
Extracts(f) ==
    /\ Regular(f) /\ IsAccepted[f]
    /\ FilePool[f].adt.tag = "Ok" /\ Len(FilePool[f].adt.val) > 0

\* y*64+x of an accepted file, from the coordinates the resolver gave.
CoordsOf == [f \in {g \in Files : Accepted(g)} |->
                LET r == parse_root_adt_filename(FilePool[f].name).val
                IN  <<Lo(r[2]), Lo(r[3])>>]
IndexOf(f) == U32Of(CoordsOf[f][2] * 64 + CoordsOf[f][1])

\* The record of an extracting file: its area ids, zero-padded, encoded.
RecordOf == [f \in {g \in Files : Extracts(g)} |->
                encode_tile_b64(Resize(FilePool[f].adt.val, TileLen, U32Of(0))).val]

InScan == pc \in {"scan", "write"}
ScanComplete == pc = "write"
Entries(c) == env.dirs[c].entries

(***************************************************************************)
(* C2                                                                      *)
(***************************************************************************)
RECURSIVE TilesInOrder(_, _)
TilesInOrder(m, fs) ==
    IF fs = {} THEN m
    ELSE LET f == CHOOSE a \in fs : \A b \in fs : a <= b
             o == PoolOutcome[f]
         IN  TilesInOrder(IF o.kind = "insert" THEN BTreeInsert(m, o.key, o.b64) ELSE m,
                          fs \ {f})

\* C2: for fixed directory contents the export is the same for every order
\* in which the directory is enumerated: the table at the end of the scan is
\* the table of the enumeration by ascending entry, whatever order was taken.
ExportOrderIndependent ==
    ScanComplete => tiles = TilesInOrder(EmptyTiles, Entries(cur))

\* The same with no two extracting files of the directory on one index.
NoCollision(c) ==
    \A f, g \in Entries(c) : (Extracts(f) /\ Extracts(g) /\ f # g) => IndexOf(f) # IndexOf(g)
ExportOrderIndependentApart ==
    (ScanComplete /\ NoCollision(cur)) => tiles = TilesInOrder(EmptyTiles, Entries(cur))

(***************************************************************************)
(* C3                                                                      *)
(***************************************************************************)
\* C3: a resolver-accepted file that fails structural parsing is reported
\* against its path, gets no table entry, and the scan goes on: at the end
\* of the scan every entry was visited and every other accepted file that
\* extracts has its entry, wherever the failing file came in the order.
ParseFailureTolerated ==
    /\ \A i \in DOMAIN trail :
          Failing(trail[i].file) =>
              /\ trail[i].did = "error"
              /\ \E j \in DOMAIN stderr :
                    /\ stderr[j][1] = "ERROR parsing"
                    /\ stderr[j][2] = EntryPath(trail[i].continent, trail[i].file)
    /\ InScan =>
          \A k \in DOMAIN tiles :
              \E i \in DOMAIN trail :
                  /\ Extracts(trail[i].file)
                  /\ IndexOf(trail[i].file) = k
                  /\ tiles[k] = RecordOf[trail[i].file]
    /\ ScanComplete =>
          /\ {trail[i].file : i \in DOMAIN trail} = Entries(cur)
          /\ \A f \in Entries(cur) : Extracts(f) => IndexOf(f) \in DOMAIN tiles

ParseFailureToleratedWitness ==
    /\ ScanComplete
    /\ Len(trail) = 3
    /\ Failing(trail[2].file)
    /\ Extracts(trail[1].file) /\ Extracts(trail[3].file)
    /\ IndexOf(trail[1].file) # IndexOf(trail[3].file)
    /\ DOMAIN tiles = {IndexOf(trail[1].file), IndexOf(trail[3].file)}

(***************************************************************************)
(* C4                                                                      *)
(***************************************************************************)
\* C4: a continent whose input directory does not exist is skipped before
\* scanning, the writer is not called for it and its artifact stays as it
\* was; the other continents are still processed, and one whose directory
\* is read and whose write succeeds has its complete artifact; main returns
\* early only when the Data directory cannot be created, before any run.
MissingDirectorySkipsOnlyThatContinent ==
    /\ \A c \in ContinentIds :
          (pc # "idle" /\ Finished(c) /\ env.dirs[c].kind = "missing") =>
              /\ ~Scanned(c)
              /\ WriterCalls(c) = 0
              /\ artifacts[c] = InitialArtifacts(env.outDir)[c]
              /\ SkippedFor(c, "Directory not found")
    /\ pc = "done" =>
          \A d \in ContinentIds :
              /\ Exported(d) \/ ExportFailed(d) \/ SkippedAt(d) # {}
              /\ (env.dirs[d].kind = "dir" /\ ~ExportFailed(d) /\ SkippedAt(d) = {}) =>
                    (Exported(d) /\ CompleteArtifact(d))
    /\ pc = "returned" =>
          /\ env.outDir = "blocked"
          /\ \A d \in ContinentIds : ~Scanned(d) /\ SkippedAt(d) = {} /\ WriterCalls(d) = 0

MissingDirectoryWitness ==
    /\ pc = "done"
    /\ env.dirs[1].kind = "missing"
    /\ SkippedFor(1, "Directory not found")
    /\ artifacts[1] = Stale
    /\ env.dirs[2].kind = "dir" /\ Cardinality(Entries(2)) = 2
    /\ Exported(2) /\ CompleteArtifact(2)

(***************************************************************************)
(* C7                                                                      *)
(***************************************************************************)
ExampleFiles == {1, 2, 3}
ExampleRecord == [i \in 1..TileLen |->
                    IF i = 1 THEN U32Of(5) ELSE IF i = 2 THEN U32Of(7)
                    ELSE IF i = 3 THEN U32Of(9) ELSE U32Of(0)]

Inserts == {i \in DOMAIN trail : trail[i].did = "insert"}
LastInsert(k) ==
    CHOOSE i \in Inserts :
        /\ PoolOutcome[trail[i].file].key = k
        /\ \A j \in Inserts : PoolOutcome[trail[j].file].key = k => j <= i

TileLines(c) == {i \in DOMAIN artifacts[c].lines : Len(artifacts[c].lines[i]) = 5}

\* C10: after any sequence of inserts the table holds, for each inserted
\* index, exactly the record of the most recent insert for it, a duplicate
\* index raising no error; iteration, and so the table written to the
\* artifact, is in strictly ascending index order.
LastWriteWins ==
    /\ InScan =>
          /\ DOMAIN tiles = {PoolOutcome[trail[i].file].key : i \in Inserts}
          /\ \A k \in DOMAIN tiles : tiles[k] = PoolOutcome[trail[LastInsert(k)].file].b64
          /\ parsed = Cardinality(Inserts)
          /\ LET it == BTreeIter(tiles) IN
             /\ Len(it) = Cardinality(DOMAIN tiles)
             /\ \A i \in DOMAIN it : it[i][2] = tiles[it[i][1]]
             /\ \A i, j \in DOMAIN it :
                   i < j => (it[i][1][1] < it[j][1][1]
                             \/ (it[i][1][1] = it[j][1][1] /\ it[i][1][2] < it[j][1][2]))
    /\ \A c \in ContinentIds :
          (pc # "idle" /\ Exported(c)) =>
              \A i, j \in TileLines(c) :
                  i < j => KeyLess(artifacts[c].lines[i][2], artifacts[c].lines[j][2])

LastWriteWinsWitness ==
    /\ ScanComplete
    /\ Len(trail) = 3
    /\ trail[1].did = "insert" /\ trail[2].did = "insert" /\ trail[3].did = "insert"
    /\ PoolOutcome[trail[1].file].key = PoolOutcome[trail[3].file].key
    /\ PoolOutcome[trail[1].file].b64 # PoolOutcome[trail[3].file].b64
    /\ Cardinality(DOMAIN tiles) = 2
    /\ tiles[PoolOutcome[trail[3].file].key] = PoolOutcome[trail[3].file].b64

====
